---- MODULE Spec2Model ----
(***************************************************************************)
(* Model of github.com/ascarter/resource (resource.go): the pattern        *)
(* matcher NewContext/FromContext, the resourceHandler dispatcher and the  *)
(* Router facade over net/http's ServeMux.                                 *)
(*                                                                         *)
(* A Go string is modelled as a sequence of one-character strings, so that *)
(* indexing, slicing, strings.Split, strings.HasPrefix and path.Join can   *)
(* be computed the way the code computes them.                             *)
(***************************************************************************)
EXTENDS Integers, Sequences, FiniteSets, TLC

(***************************************************************************)
(* Bounds of the model.                                                    *)
(***************************************************************************)
\* longest prefix / pattern handed to NewResourceHandler or HandleResource
MaxPrefixLen == 3
\* longest request path served by the dispatcher
MaxPathLen == 6
\* longest pattern handed to NewContext directly
MaxPatternLen == 5
\* longest request path handed to NewContext directly
MaxMatchPathLen == 3
\* number of requests that may be in flight at once in SpecConc
NumRequests == 2

\* characters of prefixes and request paths
Chars == {"/", "a"}
\* characters of the patterns handed to NewContext directly
PatternChars == {"/", ":", "a"}

StringsOver(alphabet, n) == UNION {[1..k -> alphabet] : k \in 0..n}

Prefixes == StringsOver(Chars, MaxPrefixLen)
Paths == StringsOver(Chars, MaxPathLen)
MatchPatterns == StringsOver(PatternChars, MaxPatternLen)
MatchPaths == StringsOver(Chars, MaxMatchPathLen)

\* the prefix, paths and methods of the concurrent requests of SpecConc
ConcPrefixes == {<<"/", "a">>}
ConcPaths == {<<"/", "a">>, <<"/", "a", "/", "a">>, <<"/", "a", "/", "a", "a">>}
ConcMethods == {"GET", "PUT"}

\* request methods: the four the dispatcher knows and one it does not
Methods == {"GET", "POST", "PUT", "DELETE", "PATCH"}

(***************************************************************************)
(* Strings (package strings, package path).                                *)
(***************************************************************************)
\* a slip for strings.HasPrefix: the whole string compared
HasPrefixWhole(s, prefix) == s = prefix

\* strings.HasPrefix
HasPrefix(s, prefix) ==
    /\ Len(prefix) <= Len(s)
    /\ SubSeq(s, 1, Len(prefix)) = prefix

\* a slip for strings.TrimPrefix: the "/" after the prefix is dropped with it
TrimPrefixAndSlash(s, prefix) ==
    LET rest == IF Len(prefix) <= Len(s) /\ SubSeq(s, 1, Len(prefix)) = prefix
                THEN SubSeq(s, Len(prefix) + 1, Len(s)) ELSE s
    IN  IF Len(rest) > 0 /\ rest[1] = "/" THEN Tail(rest) ELSE rest

\* strings.TrimPrefix
TrimPrefix(s, prefix) ==
    IF HasPrefix(s, prefix) THEN SubSeq(s, Len(prefix) + 1, Len(s)) ELSE s

\* index of the first "/" of s, 0 when there is none
IndexSlash(s) ==
    IF \E i \in 1..Len(s) : s[i] = "/"
    THEN CHOOSE i \in 1..Len(s) : s[i] = "/" /\ \A j \in 1..(i - 1) : s[j] # "/"
    ELSE 0

\* strings.Split(s, "/"): the segments of s; one empty segment for ""
RECURSIVE Split(_)
Split(s) ==
    LET i == IndexSlash(s)
    IN  IF i = 0 THEN <<s>>
        ELSE <<SubSeq(s, 1, i - 1)>> \o Split(SubSeq(s, i + 1, Len(s)))

\* the elements path.Clean keeps of the first k segments
RECURSIVE CleanElems(_, _, _)
CleanElems(segs, k, rooted) ==
    IF k = 0 THEN <<>>
    ELSE LET out == CleanElems(segs, k - 1, rooted)
             e == segs[k]
         IN  IF e = <<>> \/ e = <<".">> THEN out
             ELSE IF e = <<".", ".">>
                  THEN IF Len(out) > 0 /\ out[Len(out)] # <<".", ".">>
                       THEN SubSeq(out, 1, Len(out) - 1)
                       ELSE IF rooted THEN out ELSE Append(out, e)
                  ELSE Append(out, e)

\* the elements joined by "/"
RECURSIVE JoinElems(_)
JoinElems(elems) ==
    IF Len(elems) = 0 THEN <<>>
    ELSE IF Len(elems) = 1 THEN elems[1]
    ELSE elems[1] \o <<"/">> \o JoinElems(Tail(elems))

\* path.Clean
Clean(p) ==
    IF Len(p) = 0 THEN <<".">>
    ELSE LET rooted == p[1] = "/"
             segs == Split(p)
             out == JoinElems(CleanElems(segs, Len(segs), rooted))
         IN  IF rooted THEN <<"/">> \o out
             ELSE IF Len(out) = 0 THEN <<".">> ELSE out

\* path.Join(a, b): empty elements are dropped, the rest joined by "/" and cleaned
Join(a, b) ==
    IF Len(a) = 0 /\ Len(b) = 0 THEN <<>>
    ELSE IF Len(a) = 0 THEN Clean(b)
    ELSE IF Len(b) = 0 THEN Clean(a)
    ELSE Clean(a \o <<"/">> \o b)

(***************************************************************************)
(* RouteParams, NewContext, FromContext.                                   *)
(***************************************************************************)
\* the context key of the matched params: ctxKey(0)
paramsKey == 0

\* the placeholder segment of the singular-item pattern, ":id"
IdSegment == <<":", "i", "d">>

\* a request context without values (context.Background)
Background == {}

\* context.WithValue: a context is a set of <<key, value>> pairs
WithValue(ctx, key, val) == {e \in ctx : e[1] # key} \cup {<<key, val>>}

\* a slip for the map assignment: an entry already present is kept
MapPutIfAbsent(params, name, value) ==
    IF \E e \in params : e[1] = name THEN params ELSE params \cup {<<name, value>>}

\* RouteParams is a Go map: a set of <<name, value>> pairs with unique names;
\* an assignment params[name] = value replaces the entry of that name
MapPut(params, name, value) == {e \in params : e[1] # name} \cup {<<name, value>>}

\* a slip for the loop of NewContext: the name keeps its ":"
RECURSIVE MatchParamsWithColon(_, _, _)
MatchParamsWithColon(patParts, urlParts, k) ==
    IF k = 0 THEN {}
    ELSE LET params == MatchParamsWithColon(patParts, urlParts, k - 1)
             p == patParts[k]
         IN  IF Len(urlParts) < k THEN params
             ELSE IF Len(p) > 0 /\ p[1] = ":"
                  THEN {e \in params : e[1] # p} \cup {<<p, urlParts[k]>>}
                  ELSE params

\* a slip for the loop of NewContext: no break, a missing request segment
\* is taken as empty
RECURSIVE MatchParamsNoBreak(_, _, _)
MatchParamsNoBreak(patParts, urlParts, k) ==
    IF k = 0 THEN {}
    ELSE LET params == MatchParamsNoBreak(patParts, urlParts, k - 1)
             p == patParts[k]
             u == IF Len(urlParts) < k THEN <<>> ELSE urlParts[k]
         IN  IF Len(p) > 0 /\ p[1] = ":"
             THEN {e \in params : e[1] # Tail(p)} \cup {<<Tail(p), u>>}
             ELSE params

\* the params after the loop of NewContext has run over the first k pattern
\* segments; the loop breaks at the first index past the request segments
RECURSIVE MatchParams(_, _, _)
MatchParams(patParts, urlParts, k) ==
    IF k = 0 THEN {}
    ELSE LET params == MatchParams(patParts, urlParts, k - 1)
             p == patParts[k]
         IN  IF Len(urlParts) < k THEN params
             ELSE IF Len(p) > 0 /\ p[1] = ":"
                  THEN MapPut(params, Tail(p), urlParts[k])
                  ELSE params

\* NewContext(ctx, r, pattern), urlPath being r.URL.Path
NewContext(ctx, urlPath, pattern) ==
    LET urlParts == Split(urlPath)
        patParts == Split(pattern)
    IN  WithValue(ctx, paramsKey, MatchParams(patParts, urlParts, Len(patParts)))

\* FromContext: the params and whether any were attached
FromContext(ctx) ==
    IF \E e \in ctx : e[1] = paramsKey
    THEN [params |-> (CHOOSE e \in ctx : e[1] = paramsKey)[2], ok |-> TRUE]
    ELSE [params |-> {}, ok |-> FALSE]

(***************************************************************************)
(* trimPath, NewResourceHandler, the dispatcher.                           *)
(***************************************************************************)
\* trimPath indexes p[n-1]: a run-time panic on the empty string
trimPathPanics(p) == Len(p) = 0

\* a slip for trimPath: the trailing "/" stays
trimPathKeep(p) == p

\* trimPath drops one trailing "/" (of a non-empty string)
trimPath(p) ==
    IF p[Len(p)] = "/" THEN SubSeq(p, 1, Len(p) - 1) ELSE p

\* NewResourceHandler indexes prefix[n-1], drops one trailing "/" and hands
\* the rest to trimPath: a panic when either string is empty
NewResourceHandlerPanics(prefix) ==
    \/ Len(prefix) = 0
    \/ trimPathPanics(IF prefix[Len(prefix)] = "/"
                      THEN SubSeq(prefix, 1, Len(prefix) - 1) ELSE prefix)

\* the resourceHandler NewResourceHandler returns
NewResourceHandler(prefix, resource) ==
    LET dropped == IF prefix[Len(prefix)] = "/"
                   THEN SubSeq(prefix, 1, Len(prefix) - 1) ELSE prefix
    IN  [resource |-> resource, prefix |-> trimPath(dropped)]

\* a response, and the resource operations invoked, of one ServeHTTP call
Outcome(status, calls) == [status |-> status, calls |-> calls]

\* a slip for the invocation: the Resource method is run twice
InvokeTwice(op, r) == <<[op |-> op, r |-> r], [op |-> op, r |-> r]>>

\* one invocation of a Resource method with the request it is given
Invoke(op, r) == <<[op |-> op, r |-> r]>>

\* r.WithContext(ctx)
WithContext(r, ctx) == [r EXCEPT !.ctx = ctx]

\* resourceHandler.ServeHTTP on request r: the status the handler itself
\* writes ("none" when it leaves the response to the resource) and the calls
resourceHandlerServeHTTP(h, r) ==
    IF trimPathPanics(r.path) THEN Outcome("panic", <<>>)
    ELSE LET p == trimPath(r.path)
             item == Join(h.prefix, IdSegment)
         IN  IF ~HasPrefix(p, h.prefix) THEN Outcome("NotFound", <<>>)
             ELSE CASE r.method = "GET" ->
                         LET s == TrimPrefix(p, h.prefix)
                         IN  IF Len(s) > 0
                             THEN Outcome("none", Invoke("Show",
                                      WithContext(r, NewContext(r.ctx, r.path, item))))
                             ELSE Outcome("none", Invoke("Index", r))
                    [] r.method = "POST" -> Outcome("none", Invoke("Create", r))
                    [] r.method = "PUT" ->
                         Outcome("none", Invoke("Update",
                             WithContext(r, NewContext(r.ctx, r.path, item))))
                    [] r.method = "DELETE" ->
                         Outcome("none", Invoke("Destroy",
                             WithContext(r, NewContext(r.ctx, r.path, item))))
                    [] OTHER -> Outcome("MethodNotAllowed", <<>>)

(***************************************************************************)
(* The multiplexer behind Router: net/http.ServeMux as of the Go releases  *)
(* this package was written for (before the pattern syntax of Go 1.22).    *)
(* Requests carry no Host, so host patterns never add a match.             *)
(***************************************************************************)
\* ServeMux.Handle(pattern, h): one more entry
MuxHandle(m, pattern, hid) == m \cup {[pattern |-> pattern, h |-> hid]}

\* cleanPath of net/http: the canonical form of a request path
cleanPath(p) ==
    IF Len(p) = 0 THEN <<"/">>
    ELSE LET q == IF p[1] = "/" THEN p ELSE <<"/">> \o p
             np == Clean(q)
         IN  IF q[Len(q)] = "/" /\ np # <<"/">> THEN np \o <<"/">> ELSE np

\* ServeMux.match: the exact entry, else the longest subtree entry that is a
\* prefix of the path; 0 when there is none
MuxMatch(m, path) ==
    IF \E e \in m : e.pattern = path
    THEN (CHOOSE e \in m : e.pattern = path).h
    ELSE LET subtrees == {e \in m : /\ Len(e.pattern) > 0
                                    /\ e.pattern[Len(e.pattern)] = "/"
                                    /\ HasPrefix(path, e.pattern)}
         IN  IF subtrees = {} THEN 0
             ELSE (CHOOSE e \in subtrees :
                      \A f \in subtrees : Len(f.pattern) <= Len(e.pattern)).h

\* ServeMux.Handler: a redirect to the canonical path or to path + "/", else
\* the matching handler, else the not-found handler
MuxHandler(m, path) ==
    LET canonical == cleanPath(path)
        toSlash == /\ ~\E e \in m : e.pattern = canonical
                   /\ \E e \in m : e.pattern = canonical \o <<"/">>
                   /\ canonical[Len(canonical)] # "/"
    IN  IF toSlash \/ canonical # path THEN [status |-> "MovedPermanently", h |-> 0]
        ELSE IF MuxMatch(m, path) = 0 THEN [status |-> "NotFound", h |-> 0]
        ELSE [status |-> "none", h |-> MuxMatch(m, path)]

(***************************************************************************)
(* State.                                                                  *)
(***************************************************************************)
VARIABLES
    setup,      \* "none", "handler" (standalone), "router", "panic", "match"
    arg,        \* the constructor called and the prefix or pattern given to it
    handlers,   \* the resourceHandler instances, by identity 1, 2, ...
    mux,        \* the entries of the Router's multiplexer
    inflight    \* per request slot: the request and how far it has come

vars == <<setup, arg, handlers, mux, inflight>>

\* the one Resource implementation of the program
TheResource == "resource"

\* a slot without a request
Idle == [pc |-> "idle", r |-> [method |-> "", path |-> <<>>, ctx |-> Background],
         h |-> 0, status |-> "none", calls |-> <<>>]

\* the state NewResourceHandler(prefix, resource) leaves, used standalone
StandaloneState(prefix) ==
    IF NewResourceHandlerPanics(prefix)
    THEN [setup |-> "panic", handlers |-> <<>>, mux |-> {}]
    ELSE [setup |-> "handler",
          handlers |-> <<NewResourceHandler(prefix, TheResource)>>,
          mux |-> {}]

\* the state NewRouter() and then Router.HandleResource(pattern, resource) leave
RouterState(pattern) ==
    IF trimPathPanics(pattern) THEN [setup |-> "panic", handlers |-> <<>>, mux |-> {}]
    ELSE LET p == trimPath(pattern)
         IN  IF NewResourceHandlerPanics(p)
             THEN [setup |-> "panic", handlers |-> <<>>, mux |-> {}]
             ELSE [setup |-> "router",
                   handlers |-> <<NewResourceHandler(p, TheResource)>>,
                   mux |-> MuxHandle(MuxHandle({}, p, 1), p \o <<"/">>, 1)]

\* a slip for the request of a slot: the handler keeps the request it is
\* serving in a field of its own, shared by all the slots
RequestShared(i) ==
    inflight[CHOOSE j \in DOMAIN inflight :
                 /\ inflight[j].pc \notin {"idle", "done"}
                 /\ \A k \in DOMAIN inflight :
                        inflight[k].pc \notin {"idle", "done"} => j <= k].r

\* the request a slot is serving
RequestOf(i) == inflight[i].r

(***************************************************************************)
(* Actions.                                                                *)
(***************************************************************************)
\* NewRouter(): nothing registered, no request
Init ==
    /\ setup = "none"
    /\ arg = [fn |-> "NewRouter", pattern |-> <<>>]
    /\ handlers = <<>>
    /\ mux = {}
    /\ inflight = [i \in {1} |-> Idle]

\* NewResourceHandler(prefix, resource), the handler served standalone
StandaloneHandler(prefix) ==
    /\ setup = "none"
    /\ arg' = [fn |-> "NewResourceHandler", pattern |-> prefix]
    /\ setup' = StandaloneState(prefix).setup
    /\ handlers' = StandaloneState(prefix).handlers
    /\ mux' = StandaloneState(prefix).mux
    /\ UNCHANGED inflight

\* Router.HandleResource(pattern, resource)
HandleResource(pattern) ==
    /\ setup = "none"
    /\ arg' = [fn |-> "HandleResource", pattern |-> pattern]
    /\ setup' = RouterState(pattern).setup
    /\ handlers' = RouterState(pattern).handlers
    /\ mux' = RouterState(pattern).mux
    /\ UNCHANGED inflight

\* a request arrives: at the router, or at the standalone handler
Request(i, method, path) ==
    /\ setup \in {"handler", "router"}
    /\ inflight[i].pc = "idle"
    /\ inflight' = [inflight EXCEPT ![i] =
           [pc |-> IF setup = "router" THEN "router" ELSE "handler",
            r |-> [method |-> method, path |-> path, ctx |-> Background],
            h |-> IF setup = "router" THEN 0 ELSE 1,
            status |-> "none", calls |-> <<>>]]
    /\ UNCHANGED <<setup, arg, handlers, mux>>

\* Router.ServeHTTP: the multiplexer answers itself or picks the handler
RouterServeHTTP(i) ==
    /\ inflight[i].pc = "router"
    /\ LET found == MuxHandler(mux, RequestOf(i).path)
       IN  inflight' = [inflight EXCEPT ![i] =
               IF found.h = 0
               THEN [@ EXCEPT !.pc = "done", !.status = found.status]
               ELSE [@ EXCEPT !.pc = "handler", !.h = found.h]]
    /\ UNCHANGED <<setup, arg, handlers, mux>>

\* resourceHandler.ServeHTTP
ServeHTTP(i) ==
    /\ inflight[i].pc = "handler"
    /\ LET out == resourceHandlerServeHTTP(handlers[inflight[i].h], RequestOf(i))
       IN  inflight' = [inflight EXCEPT ![i] =
               [@ EXCEPT !.pc = "done", !.status = out.status, !.calls = out.calls]]
    /\ UNCHANGED <<setup, arg, handlers, mux>>

\* the request is over; its slot is free again
Complete(i) ==
    /\ inflight[i].pc = "done"
    /\ inflight' = [inflight EXCEPT ![i] = Idle]
    /\ UNCHANGED <<setup, arg, handlers, mux>>

Next ==
    \/ \E prefix \in Prefixes : StandaloneHandler(prefix)
    \/ \E pattern \in Prefixes : HandleResource(pattern)
    \/ \E i \in DOMAIN inflight, method \in Methods, path \in Paths :
           Request(i, method, path)
    \/ \E i \in DOMAIN inflight : RouterServeHTTP(i)
    \/ \E i \in DOMAIN inflight : ServeHTTP(i)
    \/ \E i \in DOMAIN inflight : Complete(i)

Spec == Init /\ [][Next]_vars

(***************************************************************************)
(* Concurrent requests: a handler or router configured at startup serves   *)
(* NumRequests requests at once, each in a flow of its own.                *)
(***************************************************************************)
InitConc ==
    /\ \E pattern \in ConcPrefixes :
          \/ /\ arg = [fn |-> "NewResourceHandler", pattern |-> pattern]
             /\ setup = StandaloneState(pattern).setup
             /\ handlers = StandaloneState(pattern).handlers
             /\ mux = StandaloneState(pattern).mux
          \/ /\ arg = [fn |-> "HandleResource", pattern |-> pattern]
             /\ setup = RouterState(pattern).setup
             /\ handlers = RouterState(pattern).handlers
             /\ mux = RouterState(pattern).mux
    /\ inflight = [i \in 1..NumRequests |-> Idle]

NextConc ==
    \/ \E i \in DOMAIN inflight, method \in ConcMethods, path \in ConcPaths :
           Request(i, method, path)
    \/ \E i \in DOMAIN inflight : RouterServeHTTP(i)
    \/ \E i \in DOMAIN inflight : ServeHTTP(i)
    \/ \E i \in DOMAIN inflight : Complete(i)

SpecConc == InitConc /\ [][NextConc]_vars

(***************************************************************************)
(* The pattern matcher on its own: NewContext applied to any pattern and   *)
(* any request path.                                                       *)
(***************************************************************************)
InitMatch ==
    /\ setup = "match"
    /\ \E pattern \in MatchPatterns : arg = [fn |-> "NewContext", pattern |-> pattern]
    /\ handlers = <<>>
    /\ mux = {}
    /\ inflight = [i \in {1} |-> Idle]

\* a request with the path to match
MatchRequest(i, path) ==
    /\ setup = "match"
    /\ inflight[i].pc = "idle"
    /\ inflight' = [inflight EXCEPT ![i] =
           [Idle EXCEPT !.pc = "match", !.r.path = path]]
    /\ UNCHANGED <<setup, arg, handlers, mux>>

\* ctx := NewContext(r.Context(), r, pattern); r.WithContext(ctx)
NewContextCall(i) ==
    /\ inflight[i].pc = "match"
    /\ LET r == RequestOf(i)
       IN  inflight' = [inflight EXCEPT ![i] =
               [@ EXCEPT !.pc = "done",
                         !.r = WithContext(r, NewContext(r.ctx, r.path, arg.pattern))]]
    /\ UNCHANGED <<setup, arg, handlers, mux>>

NextMatch ==
    \/ \E i \in DOMAIN inflight, path \in MatchPaths : MatchRequest(i, path)
    \/ \E i \in DOMAIN inflight : NewContextCall(i)
    \/ \E i \in DOMAIN inflight : Complete(i)

SpecMatch == InitMatch /\ [][NextMatch]_vars

(***************************************************************************)
(* Vocabulary of the properties. These are written without the operators   *)
(* of the model above, so that a property says what is expected and the    *)
(* model says what the code does.                                          *)
(***************************************************************************)
Slots == DOMAIN inflight

\* slot i holds a request that a resourceHandler has finished serving
Served(i) == inflight[i].pc = "done" /\ inflight[i].h # 0

\* the stored prefix of the handler that served slot i
PrefixOf(i) == handlers[inflight[i].h].prefix

\* the name of the item parameter
Id == <<"i", "d">>

\* s begins with p
BeginsWith(s, p) ==
    /\ Len(p) <= Len(s)
    /\ \A k \in 1..Len(p) : s[k] = p[k]

\* the text of s from position n on
From(s, n) == [k \in 1..(Len(s) - n + 1) |-> s[k + n - 1]]

\* the segment of s that starts at position n: the text up to the next "/"
SegmentAt(s, n) ==
    LET stop == CHOOSE j \in n..(Len(s) + 1) :
                    /\ j = Len(s) + 1 \/ s[j] = "/"
                    /\ \A k \in n..(j - 1) : s[k] # "/"
    IN  [k \in 1..(stop - n) |-> s[k + n - 1]]

\* s without one trailing "/"
WithoutSlash(s) ==
    IF Len(s) > 0 /\ s[Len(s)] = "/" THEN [k \in 1..(Len(s) - 1) |-> s[k]] ELSE s

\* the segments of s as the set of <<index, segment>>, the first at index 1
SegmentStarts(s) == {1} \cup {k + 1 : k \in {j \in 1..Len(s) : s[j] = "/"}}
SegmentsOf(s) ==
    {<<Cardinality({m \in SegmentStarts(s) : m <= n}), SegmentAt(s, n)>> :
        n \in SegmentStarts(s)}

\* a prefix as registration is meant to leave it: not empty, no trailing "/"
NormalizedPrefix(P) == Len(P) > 0 /\ P[Len(P)] # "/"

\* a normalized prefix that path.Join leaves as it is and that holds no
\* placeholder of its own: no empty segment after the first, no "." and no
\* ".." segment, no segment that begins with ":"
CanonicalPrefix(P) ==
    /\ NormalizedPrefix(P)
    /\ \A k \in 1..(Len(P) - 1) : ~(P[k] = "/" /\ P[k + 1] = "/")
    /\ \A e \in SegmentsOf(P) :
           /\ e[2] # <<".">>
           /\ e[2] # <<".", ".">>
           /\ ~(Len(e[2]) > 0 /\ e[2][1] = ":")

\* path is P/seg, P/seg/ or P/seg/more with a non-empty seg
IsItemPath(path, P) ==
    /\ BeginsWith(path, P \o <<"/">>)
    /\ SegmentAt(path, Len(P) + 2) # <<>>

\* the operation of the item routes
ItemOp(method) ==
    CASE method = "GET" -> "Show"
      [] method = "PUT" -> "Update"
      [] method = "DELETE" -> "Destroy"
      [] OTHER -> "none"

\* slot i ended in exactly one invocation, of op, and nothing else
InvokedOnly(i, op) ==
    /\ inflight[i].status = "none"
    /\ Len(inflight[i].calls) = 1
    /\ inflight[i].calls[1].op = op

\* what FromContext returns to the resource operation invoked for slot i
Seen(i) == FromContext(inflight[i].calls[1].r.ctx)

(***************************************************************************)
(* C1                                                                      *)
(***************************************************************************)
\* what C1 promises of the request in slot i
C1_Dispatched(i) ==
    /\ InvokedOnly(i, ItemOp(inflight[i].r.method))
    /\ Seen(i) = [params |-> {<<Id, SegmentAt(inflight[i].r.path, Len(PrefixOf(i)) + 2)>>},
                  ok |-> TRUE]

\* C1 as stated: for every registered prefix P, a GET, PUT or DELETE of P/seg
\* or P/seg/more is dispatched to Show, Update or Destroy with the route
\* parameters exactly {id: seg}.
C1_EveryPrefix ==
    \A i \in Slots :
        ( /\ Served(i)
          /\ inflight[i].r.method \in {"GET", "PUT", "DELETE"}
          /\ IsItemPath(inflight[i].r.path, PrefixOf(i)) )
        => C1_Dispatched(i)

\* C1 amended: the same for every registered prefix P in canonical form (not
\* empty, no trailing "/", no empty segment after the first, no "." or ".."
\* segment, no segment that begins with ":"): the route parameters are
\* exactly {id: seg}, seg the first segment after P, whatever follows it.
C1_ItemParams ==
    \A i \in Slots :
        ( /\ Served(i)
          /\ CanonicalPrefix(PrefixOf(i))
          /\ inflight[i].r.method \in {"GET", "PUT", "DELETE"}
          /\ IsItemPath(inflight[i].r.path, PrefixOf(i)) )
        => C1_Dispatched(i)

\* a DELETE of P/seg/more, more not empty, was dispatched with {id: seg}
C1_Witness ==
    \E i \in Slots :
        /\ Served(i)
        /\ CanonicalPrefix(PrefixOf(i))
        /\ inflight[i].r.method = "DELETE"
        /\ IsItemPath(inflight[i].r.path, PrefixOf(i))
        /\ LET seg == SegmentAt(inflight[i].r.path, Len(PrefixOf(i)) + 2)
           IN  Len(inflight[i].r.path) > Len(PrefixOf(i)) + Len(seg) + 2
        /\ C1_Dispatched(i)

(***************************************************************************)
(* C2                                                                      *)
(***************************************************************************)
\* the path of slot i is P or P/
IsCollectionPath(i) ==
    \/ inflight[i].r.path = PrefixOf(i)
    \/ inflight[i].r.path = PrefixOf(i) \o <<"/">>

\* C2 as stated: a GET of exactly P, or of P/, invokes Index, and FromContext
\* on the request Index sees returns found=false. (Stated of the requests
\* with a non-empty path; the empty path is the subject of C11.)
C2_EveryPrefix ==
    \A i \in Slots :
        ( /\ Served(i)
          /\ inflight[i].r.path # <<>>
          /\ inflight[i].r.method = "GET"
          /\ IsCollectionPath(i) )
        => (InvokedOnly(i, "Index") /\ ~Seen(i).ok)

\* C2 amended: for a registered prefix P that is not empty and has no
\* trailing "/", a GET of exactly P, or of P/, invokes Index, and FromContext
\* on the request Index sees returns found=false.
C2_IndexNoParams ==
    \A i \in Slots :
        ( /\ Served(i)
          /\ NormalizedPrefix(PrefixOf(i))
          /\ inflight[i].r.method = "GET"
          /\ IsCollectionPath(i) )
        => (InvokedOnly(i, "Index") /\ ~Seen(i).ok)

\* a GET of P/ ended in Index without params
C2_Witness ==
    \E i \in Slots :
        /\ Served(i)
        /\ NormalizedPrefix(PrefixOf(i))
        /\ inflight[i].r.method = "GET"
        /\ inflight[i].r.path = PrefixOf(i) \o <<"/">>
        /\ InvokedOnly(i, "Index")
        /\ ~Seen(i).ok

(***************************************************************************)
(* C3                                                                      *)
(***************************************************************************)
\* C3: every request handed to a ResourceHandler, whatever its method, whose
\* path does not begin with the registered prefix is answered "not found",
\* and no resource operation is invoked.
C3_NotFound ==
    \A i \in Slots :
        (Served(i) /\ ~BeginsWith(inflight[i].r.path, PrefixOf(i)))
        => (inflight[i].status = "NotFound" /\ inflight[i].calls = <<>>)

(***************************************************************************)
(* C4                                                                      *)
(***************************************************************************)
KnownMethods == {"GET", "POST", "PUT", "DELETE"}

\* C4 as stated: every request whose path begins with the registered prefix
\* and whose method is none of GET, POST, PUT, DELETE is answered "method not
\* allowed", and no resource operation is invoked. (Stated of the requests
\* with a non-empty path; the empty path is the subject of C11.)
C4_EveryPrefix ==
    \A i \in Slots :
        ( /\ Served(i)
          /\ inflight[i].r.path # <<>>
          /\ BeginsWith(inflight[i].r.path, PrefixOf(i))
          /\ inflight[i].r.method \notin KnownMethods )
        => (inflight[i].status = "MethodNotAllowed" /\ inflight[i].calls = <<>>)

\* C4 amended: for a registered prefix that is not empty and has no trailing
\* "/", every request whose path begins with the prefix and whose method is
\* none of GET, POST, PUT, DELETE is answered "method not allowed", and no
\* resource operation is invoked.
C4_MethodNotAllowed ==
    \A i \in Slots :
        ( /\ Served(i)
          /\ NormalizedPrefix(PrefixOf(i))
          /\ BeginsWith(inflight[i].r.path, PrefixOf(i))
          /\ inflight[i].r.method \notin KnownMethods )
        => (inflight[i].status = "MethodNotAllowed" /\ inflight[i].calls = <<>>)

\* a PATCH of a path under the prefix was refused
C4_Witness ==
    \E i \in Slots :
        /\ Served(i)
        /\ NormalizedPrefix(PrefixOf(i))
        /\ IsItemPath(inflight[i].r.path, PrefixOf(i))
        /\ inflight[i].r.method = "PATCH"
        /\ inflight[i].status = "MethodNotAllowed"
        /\ inflight[i].calls = <<>>

(***************************************************************************)
(* C5                                                                      *)
(***************************************************************************)
\* the operation of PUT and DELETE
WriteOp(method) == IF method = "PUT" THEN "Update" ELSE "Destroy"

\* C5 as stated: a PUT or DELETE of P or P/ still invokes Update or Destroy
\* with route parameters attached (found=true), and the mapping contains the
\* key id with the empty string as its value. (Stated of the requests with a
\* non-empty path; the empty path is the subject of C11.)
C5_IdAlwaysPresent ==
    \A i \in Slots :
        ( /\ Served(i)
          /\ inflight[i].r.path # <<>>
          /\ inflight[i].r.method \in {"PUT", "DELETE"}
          /\ IsCollectionPath(i) )
        => ( /\ InvokedOnly(i, WriteOp(inflight[i].r.method))
             /\ Seen(i).ok
             /\ <<Id, <<>>>> \in Seen(i).params )

\* C5 amended: for a registered prefix P in canonical form, a PUT or DELETE
\* of P or P/ still invokes Update or Destroy with route parameters attached
\* (found=true); for P/ the mapping is exactly {id: ""}, for P itself the
\* mapping is empty and holds no key id.
C5_CollectionWrite ==
    \A i \in Slots :
        ( /\ Served(i)
          /\ CanonicalPrefix(PrefixOf(i))
          /\ inflight[i].r.method \in {"PUT", "DELETE"}
          /\ IsCollectionPath(i) )
        => ( /\ InvokedOnly(i, WriteOp(inflight[i].r.method))
             /\ Seen(i).ok
             /\ Seen(i).params = IF inflight[i].r.path = PrefixOf(i)
                                 THEN {}
                                 ELSE {<<Id, <<>>>>} )

\* a PUT of P itself reached Update with an empty mapping attached
C5_Witness ==
    \E i \in Slots :
        /\ Served(i)
        /\ CanonicalPrefix(PrefixOf(i))
        /\ inflight[i].r.method = "PUT"
        /\ inflight[i].r.path = PrefixOf(i)
        /\ InvokedOnly(i, "Update")
        /\ Seen(i) = [params |-> {}, ok |-> TRUE]

(***************************************************************************)
(* C6                                                                      *)
(***************************************************************************)
\* C6 as stated: every POST whose path begins with the registered prefix,
\* with or without a sub-path, invokes Create exactly once and nothing else,
\* and no route parameters are attached. (Stated of the requests with a
\* non-empty path; the empty path is the subject of C11.)
C6_EveryPrefix ==
    \A i \in Slots :
        ( /\ Served(i)
          /\ inflight[i].r.path # <<>>
          /\ BeginsWith(inflight[i].r.path, PrefixOf(i))
          /\ inflight[i].r.method = "POST" )
        => (InvokedOnly(i, "Create") /\ ~Seen(i).ok)

\* C6 amended: for a registered prefix that is not empty and has no trailing
\* "/", every POST whose path begins with the prefix, with or without a
\* sub-path, invokes Create exactly once and nothing else, and no route
\* parameters are attached.
C6_CreateOnce ==
    \A i \in Slots :
        ( /\ Served(i)
          /\ NormalizedPrefix(PrefixOf(i))
          /\ BeginsWith(inflight[i].r.path, PrefixOf(i))
          /\ inflight[i].r.method = "POST" )
        => (InvokedOnly(i, "Create") /\ ~Seen(i).ok)

\* a POST of P/seg reached Create, once, without params
C6_Witness ==
    \E i \in Slots :
        /\ Served(i)
        /\ NormalizedPrefix(PrefixOf(i))
        /\ IsItemPath(inflight[i].r.path, PrefixOf(i))
        /\ inflight[i].r.method = "POST"
        /\ InvokedOnly(i, "Create")
        /\ ~Seen(i).ok

(***************************************************************************)
(* C9                                                                      *)
(***************************************************************************)
\* the text after prefix P of the path without its trailing "/"
Remainder(path, P) == From(WithoutSlash(path), Len(P) + 1)

\* the sub-path as C9 defines it: the remainder with its leading "/" stripped
SubPath(path, P) ==
    LET rest == Remainder(path, P)
    IN  IF Len(rest) > 0 /\ rest[1] = "/" THEN From(rest, 2) ELSE rest

\* the operation of a verb, given whether GET is to go to the item
OpFor(method, item) ==
    CASE method = "GET" -> IF item THEN "Show" ELSE "Index"
      [] method = "POST" -> "Create"
      [] method = "PUT" -> "Update"
      [] method = "DELETE" -> "Destroy"
      [] OTHER -> "none"

\* C9 as stated: for a GET whose path begins with the registered prefix, Index
\* is invoked when the sub-path (the text after the prefix, leading "/"
\* stripped, after one trailing "/" was stripped from the path) is empty and
\* Show when it is not; the operation of no other verb depends on the
\* sub-path. (Stated of the prefixes that are not empty and have no trailing
\* "/".)
C9_SubPathStripped ==
    \A i \in Slots :
        ( /\ Served(i)
          /\ NormalizedPrefix(PrefixOf(i))
          /\ BeginsWith(inflight[i].r.path, PrefixOf(i))
          /\ inflight[i].r.method \in KnownMethods )
        => InvokedOnly(i, OpFor(inflight[i].r.method,
                                SubPath(inflight[i].r.path, PrefixOf(i)) # <<>>))

\* C9 amended: for a registered prefix that is not empty and has no trailing
\* "/", and a GET whose path begins with it, Index is invoked when nothing is
\* left after the prefix once one trailing "/" was stripped from the path (the
\* path is P or P/), and Show when anything is left, a lone "/" included (P//
\* goes to Show: the leading "/" is not stripped); the operation of no other
\* verb depends on what is left.
C9_GetBranch ==
    \A i \in Slots :
        ( /\ Served(i)
          /\ NormalizedPrefix(PrefixOf(i))
          /\ BeginsWith(inflight[i].r.path, PrefixOf(i))
          /\ inflight[i].r.method \in KnownMethods )
        => InvokedOnly(i, OpFor(inflight[i].r.method,
                                Remainder(inflight[i].r.path, PrefixOf(i)) # <<>>))

\* a GET of P// went to Show
C9_Witness ==
    \E i \in Slots :
        /\ Served(i)
        /\ NormalizedPrefix(PrefixOf(i))
        /\ inflight[i].r.method = "GET"
        /\ inflight[i].r.path = PrefixOf(i) \o <<"/", "/">>
        /\ InvokedOnly(i, "Show")

(***************************************************************************)
(* C7                                                                      *)
(***************************************************************************)
\* the registration C7 promises for prefix P: the bare path and the subtree,
\* both bound to the one handler, whose stored prefix is P
RegisteredAs(P) ==
    /\ setup = "router"
    /\ Len(handlers) = 1
    /\ handlers[1].prefix = P
    /\ mux = {[pattern |-> P, h |-> 1], [pattern |-> P \o <<"/">>, h |-> 1]}

\* C7: for any non-empty pattern given to Router.HandleResource, written as P
\* or as P with a trailing "/", exactly two multiplexer entries are
\* registered, P and P/, both bound to the same single ResourceHandler whose
\* stored prefix is P (so that the routers built from P and from P/ are the
\* same and dispatch every request identically).
C7_TwoEntries ==
    (arg.fn = "HandleResource" /\ arg.pattern # <<>>)
    => \/ RegisteredAs(arg.pattern)
       \/ /\ arg.pattern[Len(arg.pattern)] = "/"
          /\ RegisteredAs(WithoutSlash(arg.pattern))

(***************************************************************************)
(* C8                                                                      *)
(***************************************************************************)
\* slot i holds a request NewContext has been applied to
Matched(i) == setup = "match" /\ inflight[i].pc = "done"

\* segment e of a pattern is a placeholder ":name"
IsPlaceholder(e) == Len(e[2]) > 0 /\ e[2][1] = ":"

\* the entries name -> requestSegment[k], one for each index k within both
\* the pattern and the path at which the pattern segment is a placeholder
PlaceholderEntries(pattern, path) ==
    {<<e[1], From(e[2], 2), u[2]>> :
        <<e, u>> \in {q \in SegmentsOf(pattern) \X SegmentsOf(path) :
                         q[1][1] = q[2][1] /\ IsPlaceholder(q[1])}}

\* C8 as stated: for every pattern and every request path NewContext attaches
\* a mapping that holds exactly one entry name -> requestSegment[k] for each
\* index k, within both segment counts, at which the pattern segment is
\* ":name", and no other entry.
C8_EntryPerIndex ==
    \A i \in Slots :
        Matched(i) =>
            /\ FromContext(inflight[i].r.ctx).ok
            /\ FromContext(inflight[i].r.ctx).params =
                   {<<t[2], t[3]>> : t \in PlaceholderEntries(arg.pattern, inflight[i].r.path)}

\* C8 amended: for every pattern and every request path NewContext attaches a
\* mapping that holds, for each name of a placeholder ":name" at an index
\* within both segment counts, exactly one entry name -> requestSegment[k]
\* with k the last such index of that name, and no other entry; literal
\* segments are not compared and pattern segments past the end of the path
\* add nothing.
C8_LastIndexWins ==
    \A i \in Slots :
        Matched(i) =>
            LET entries == PlaceholderEntries(arg.pattern, inflight[i].r.path)
            IN  /\ FromContext(inflight[i].r.ctx).ok
                /\ FromContext(inflight[i].r.ctx).params =
                       {<<t[2], t[3]>> : t \in
                           {s \in entries :
                               \A o \in entries : o[2] = s[2] => o[1] <= s[1]}}

\* a pattern with the same name at two indices met a path with different
\* segments there, and one entry came out
C8_Witness ==
    \E i \in Slots :
        /\ Matched(i)
        /\ \E s, o \in PlaceholderEntries(arg.pattern, inflight[i].r.path) :
               s[1] < o[1] /\ s[2] = o[2] /\ s[3] # o[3] /\ s[2] # <<>>
        /\ Cardinality(FromContext(inflight[i].r.ctx).params) = 1

(***************************************************************************)
(* C10                                                                     *)
(***************************************************************************)
\* the invocation made for slot i carries the method and path of the request
\* of slot i, and every parameter value is a segment of that path
OwnRequest(i) ==
    \A k \in 1..Len(inflight[i].calls) :
        LET call == inflight[i].calls[k]
        IN  /\ call.r.method = inflight[i].r.method
            /\ call.r.path = inflight[i].r.path
            /\ \A e \in FromContext(call.r.ctx).params :
                   \E s \in SegmentsOf(inflight[i].r.path) : e[2] = s[2]
            /\ (call.op \in {"Show", "Update", "Destroy"}
                /\ IsItemPath(inflight[i].r.path, PrefixOf(i)))
               => FromContext(call.r.ctx).params =
                      {<<Id, SegmentAt(inflight[i].r.path, Len(PrefixOf(i)) + 2)>>}

\* C10: with several requests in flight at the same handler or router, in
\* every interleaving each resource invocation receives the route parameters
\* of its own request's path, never those of another request in flight, and
\* serving requests never changes the handler's stored prefix or resource
\* (nor the router's entries).
C10_Isolated ==
    /\ [](\A i \in Slots : Served(i) => OwnRequest(i))
    /\ [][handlers' = handlers /\ mux' = mux]_vars

\* two requests in flight at once were given different route parameters
C10_Witness ==
    \E i, j \in Slots :
        /\ i # j
        /\ Served(i) /\ Served(j)
        /\ Len(inflight[i].calls) = 1 /\ Len(inflight[j].calls) = 1
        /\ Seen(i).ok /\ Seen(j).ok
        /\ Seen(i).params # {} /\ Seen(j).params # {}
        /\ Seen(i).params # Seen(j).params

\* the five operations of the Resource interface
ResourceOps == {"Index", "Create", "Show", "Update", "Destroy"}

\* the request ended in exactly one of the three terminal outcomes: a
\* "not found" response, a "method not allowed" response, or one invocation
\* of one resource operation with no error response
OneOutcome(i) ==
    \/ inflight[i].status = "NotFound" /\ inflight[i].calls = <<>>
    \/ inflight[i].status = "MethodNotAllowed" /\ inflight[i].calls = <<>>
    \/ /\ inflight[i].status = "none"
       /\ Len(inflight[i].calls) = 1
       /\ inflight[i].calls[1].op \in ResourceOps

\* C11: every call of a ResourceHandler's ServeHTTP, for any HTTP method and
\* any request path, the empty path included, completes with exactly one
\* terminal outcome: a "not found" response, a "method not allowed" response,
\* or exactly one invocation of exactly one resource operation; it never
\* fails without an outcome and never produces two.
C11_OneOutcome ==
    \A i \in Slots : Served(i) => OneOutcome(i)

\* the same over non-empty request paths only, where the dispatcher does end
\* in one outcome; the empty path is what separates the code from C11
C11_NonEmptyPaths ==
    \A i \in Slots :
        (Served(i) /\ inflight[i].r.path # <<>>) => OneOutcome(i)

====
